---- MODULE Spec2Model ----
(***************************************************************************)
(* Model of the memory-segment core of the minidump reader:                *)
(*   minidump/common_structs.py          location descriptors, segments    *)
(*   minidump/streams/Memory64ListStream.py   full/64-form list            *)
(*   minidump/streams/MemoryListStream.py     simple-form list             *)
(*                                                                         *)
(* The specifications share the variables.  Spec drives read / search /    *)
(* validate_address calls on segments over one backing file handle, one    *)
(* call at a time, each call advancing one file-handle operation per step. *)
(* ParseSpec drives the stream decoders on byte buffers.  AsyncSpec runs   *)
(* two aread coroutines on one file handle, switching at their awaits.     *)
(* FairSpec runs find_first searches whose entered calls keep executing.   *)
(***************************************************************************)
EXTENDS Integers, Sequences, FiniteSets, TLC

----------------------------------------------------------------------------
(* Bounds of the model *)

\* length of the backing file, in bytes
FileLen == 5
\* largest segment size
MaxSize == 5
\* largest start_file_address of a segment
MaxFileAddr == 1
\* longest search pattern
MaxPatLen == 3
\* largest chunksize argument of search
MaxChunk == 2
\* largest size argument of read / validate_address
MaxReadLen == 2
\* the iteration counter of the chunk loop is kept modulo MaxIter
MaxIter == 2

\* the byte values the backing file and the patterns are made of
Bytes == {"A", "B"}
\* start_virtual_address of the segments (distinct from every file address)
StartAddrs == {16}

----------------------------------------------------------------------------
(* State *)

VARIABLES
    file,       \* content of the backing source (fixed)
    cursor,     \* position of the file handle (file_handler.tell())
    cursor0,    \* position of the file handle before any call
    self,       \* the MinidumpMemorySegment the current call is made on
    call,       \* the current call: method name and arguments
    pc,         \* position inside the current call
    pos,        \* local `pos`
    data,       \* local `data`
    chunksize,  \* local `chunksize` (search, find_first branch)
    fl,         \* local `fl`
    marker,     \* local `marker` (search, find_first branch)
    i,          \* local `i` (search, find_first branch), kept modulo MaxIter
    ret,        \* outcome of the call: returned value or raised exception
    io_used,    \* whether the call has issued a seek or a read on the handle
    stream_op,  \* ParseSpec: the decoder that ran
    stream_in,  \* ParseSpec: the values the input buffer was built from
    chunk_data, \* ParseSpec: the input buffer
    buff_pos,   \* ParseSpec: position of the buffer after a location descriptor was decoded
    stream_ret, \* ParseSpec: "return" or "raise", how the decoder ended
    location,   \* ParseSpec: decoded location descriptor
    memory_segments,  \* ParseSpec: decoded segment list
    areads,     \* AsyncSpec: the frame of each aread coroutine
    overlapped  \* AsyncSpec: whether an aread started while another was running

segvars == <<file, cursor, cursor0, self, call, pc, pos, data, chunksize, fl, marker, i, ret, io_used>>
parsevars == <<stream_op, stream_in, chunk_data, buff_pos, stream_ret, location, memory_segments>>
asyncvars == <<areads, overlapped>>
vars == <<file, cursor, cursor0, self, call, pc, pos, data, chunksize, fl, marker, i, ret, io_used,
          stream_op, stream_in, chunk_data, buff_pos, stream_ret, location, memory_segments,
          areads, overlapped>>

----------------------------------------------------------------------------
(* Helpers *)

Min(a, b) == IF a < b THEN a ELSE b

SetMin(S) == CHOOSE x \in S : \A y \in S : x <= y

\* all sequences over S of length 0..n
RECURSIVE SeqsUpTo(_, _)
SeqsUpTo(S, n) ==
    IF n = 0 THEN {<<>>}
    ELSE LET shorter == SeqsUpTo(S, n - 1)
         IN  shorter \cup {Append(s, x) : s \in {t \in shorter : Len(t) = n - 1}, x \in S}

\* s[m:] of Python (0-based m)
DropFirst(s, m) == IF m >= Len(s) THEN <<>> ELSE SubSeq(s, m + 1, Len(s))

\* s[m:m+n] of Python (0-based m), clipped to the sequence
Slice(s, m, n) ==
    IF m >= Len(s) \/ n <= 0 THEN <<>> ELSE SubSeq(s, m + 1, Min(m + n, Len(s)))

----------------------------------------------------------------------------
(* The file handle: a cursor over `file` *)

\* file_handler.read(n) at cursor c: the bytes returned (short at end of file)
fh_read(c, n) == Slice(file, c, n)

\* bytes.find: lowest 0-based index of pattern in d, or -1
find(d, pattern) ==
    LET idx == {k \in 0..(Len(d) - Len(pattern)) : Slice(d, k, Len(pattern)) = pattern}
    IN  IF idx = {} THEN -1 ELSE SetMin(idx)

----------------------------------------------------------------------------
(* MinidumpMemorySegment *)

\* the dataclass constructor with __post_init__
MinidumpMemorySegment(size, start_file_address, start_virtual_address) ==
    [size |-> size,
     start_file_address |-> start_file_address,
     start_virtual_address |-> start_virtual_address,
     end_virtual_address |-> start_virtual_address + size]

\* validate_address: "" when it returns, else the message of the exception
validate_address_lt(seg, virtual_address, size) ==
    IF ~(seg.start_virtual_address <= virtual_address
         /\ virtual_address < seg.end_virtual_address)
    THEN "Reading from wrong segment!"
    ELSE IF virtual_address + size > seg.end_virtual_address
    THEN "Read would cross boundaries!"
    ELSE ""

validate_address(seg, virtual_address, size) ==
    IF ~(seg.start_virtual_address <= virtual_address
         /\ virtual_address <= seg.end_virtual_address)
    THEN "Reading from wrong segment!"
    ELSE IF virtual_address + size > seg.end_virtual_address
    THEN "Read would cross boundaries!"
    ELSE ""

Segments ==
    {MinidumpMemorySegment(sz, fa, va) :
        sz \in 0..MaxSize, fa \in 0..MaxFileAddr, va \in StartAddrs}

NoCall == [name |-> "none", virtual_address |-> 0, size |-> 0,
           pattern |-> <<>>, find_first |-> FALSE, chunksize |-> 0]

NoRet == [status |-> "none", value |-> <<>>, error |-> ""]
Return(v) == [status |-> "return", value |-> v, error |-> ""]
Raise(msg) == [status |-> "raise", value |-> <<>>, error |-> msg]

\* a call starts, with fresh locals, when no other call is in progress
Enter(seg, c) ==
    /\ pc = "idle"
    /\ self' = seg
    /\ call' = c
    /\ data' = <<>>
    /\ fl' = <<>>
    /\ chunksize' = 0
    /\ marker' = -1
    /\ i' = 0
    /\ io_used' = FALSE

----------------------------------------------------------------------------
(* MinidumpMemorySegment.validate_address, called on its own *)

ValidateCall(seg, virtual_address, size) ==
    /\ Enter(seg, [NoCall EXCEPT !.name = "validate_address",
                                 !.virtual_address = virtual_address,
                                 !.size = size])
    /\ LET err == validate_address(seg, virtual_address, size)
       IN  ret' = IF err = "" THEN Return(<<>>) ELSE Raise(err)
    /\ pc' = "done"
    /\ UNCHANGED <<file, cursor, cursor0, pos>>

----------------------------------------------------------------------------
(* MinidumpMemorySegment.read / aread: one step per file-handle operation *)

\* validate_address, then pos = file_handler.tell()
ReadCall(seg, virtual_address, size) ==
    /\ Enter(seg, [NoCall EXCEPT !.name = "read",
                                 !.virtual_address = virtual_address,
                                 !.size = size])
    /\ LET err == validate_address(seg, virtual_address, size)
       IN  IF err # ""
           THEN /\ ret' = Raise(err)
                /\ pc' = "done"
                /\ pos' = pos
           ELSE /\ ret' = NoRet
                /\ pc' = "read_seek"
                /\ pos' = cursor
    /\ UNCHANGED <<file, cursor, cursor0>>

\* the file offset read seeks to: start_file_address + offset
read_offset(seg, virtual_address) ==
    seg.start_file_address + (virtual_address - seg.start_virtual_address)

\* file_handler.seek(self.start_file_address + offset, 0)
ReadSeek ==
    /\ pc = "read_seek"
    /\ cursor' = read_offset(self, call.virtual_address)
    /\ io_used' = TRUE
    /\ pc' = "read_read"
    /\ UNCHANGED <<file, cursor0, self, call, pos, data, chunksize, fl, marker, i, ret>>

\* data = file_handler.read(size)
ReadData ==
    /\ pc = "read_read"
    /\ data' = fh_read(cursor, call.size)
    /\ cursor' = cursor + Len(data')
    /\ pc' = "read_restore"
    /\ UNCHANGED <<file, cursor0, self, call, pos, chunksize, fl, marker, i, ret, io_used>>

\* file_handler.seek(pos, 0); return data
ReadRestore ==
    /\ pc = "read_restore"
    /\ cursor' = pos
    /\ ret' = Return(data)
    /\ pc' = "done"
    /\ UNCHANGED <<file, cursor0, self, call, pos, data, chunksize, fl, marker, i, io_used>>

----------------------------------------------------------------------------
(* MinidumpMemorySegment.search / asearch *)

\* faulty variant: no short-circuit for a pattern longer than the segment
SearchCall_nocheck(seg, pattern, find_first, chunk) ==
    /\ Enter(seg, [NoCall EXCEPT !.name = "search",
                                 !.pattern = pattern,
                                 !.find_first = find_first,
                                 !.chunksize = chunk])
    /\ ret' = NoRet
    /\ pc' = "search_seek"
    /\ pos' = cursor
    /\ UNCHANGED <<file, cursor, cursor0>>

\* if len(pattern) > self.size: return []; pos = file_handler.tell()
SearchCall(seg, pattern, find_first, chunk) ==
    /\ Enter(seg, [NoCall EXCEPT !.name = "search",
                                 !.pattern = pattern,
                                 !.find_first = find_first,
                                 !.chunksize = chunk])
    /\ IF Len(pattern) > seg.size
       THEN /\ ret' = Return(<<>>)
            /\ pc' = "done"
            /\ pos' = pos
       ELSE /\ ret' = NoRet
            /\ pc' = "search_seek"
            /\ pos' = cursor
    /\ UNCHANGED <<file, cursor, cursor0>>

\* file_handler.seek(self.start_file_address, 0); fl = []
\* find_first: chunksize = min(chunksize, self.size); data = b""; i = 0
SearchSeek ==
    /\ pc = "search_seek"
    /\ cursor' = self.start_file_address
    /\ io_used' = TRUE
    /\ fl' = <<>>
    /\ data' = <<>>
    /\ IF call.find_first
       THEN /\ chunksize' = Min(call.chunksize, self.size)
            /\ pc' = "search_chunk"
       ELSE /\ chunksize' = chunksize
            /\ pc' = "search_readall"
    /\ i' = 0
    /\ UNCHANGED <<file, cursor0, self, call, pos, marker, ret>>

\* faulty variant: the match is looked for in the newest chunk only
chunk_marker_newest(accumulated, chunk, pattern) ==
    LET m == find(chunk, pattern)
    IN  IF m = -1 THEN -1 ELSE m + (Len(accumulated) - Len(chunk))

\* data += file_handler.read(chunksize); marker = data.find(pattern)
chunk_marker(accumulated, chunk, pattern) == find(accumulated, pattern)

\* one iteration of `while len(data) < self.size`, up to the test of marker;
\* i += 1 counts the iterations
SearchChunk ==
    /\ pc = "search_chunk"
    /\ Len(data) < self.size
    /\ LET cs == IF chunksize > self.size - Len(data)
                 THEN self.size - Len(data) ELSE chunksize
           got == fh_read(cursor, cs)
       IN  /\ chunksize' = cs
           /\ data' = data \o got
           /\ cursor' = cursor + Len(got)
           /\ marker' = chunk_marker(data', got, call.pattern)
           /\ pc' = IF marker' # -1 THEN "search_found" ELSE "search_chunk"
    /\ i' = (i + 1) % MaxIter
    /\ UNCHANGED <<file, cursor0, self, call, pos, fl, ret, io_used>>

\* the loop condition fails: fall through to the final seek
SearchExhausted ==
    /\ pc = "search_chunk"
    /\ ~(Len(data) < self.size)
    /\ pc' = "search_restore"
    /\ UNCHANGED <<file, cursor, cursor0, self, call, pos, data, chunksize, fl, marker, i, ret, io_used>>

\* faulty variant: the early return does not seek back
SearchFound_noseek ==
    /\ pc = "search_found"
    /\ ret' = Return(<<self.start_virtual_address + marker>>)
    /\ pc' = "done"
    /\ UNCHANGED <<file, cursor, cursor0, self, call, pos, data, chunksize, fl, marker, i, io_used>>

\* file_handler.seek(pos, 0); return [self.start_virtual_address + marker]
SearchFound ==
    /\ pc = "search_found"
    /\ cursor' = pos
    /\ ret' = Return(<<self.start_virtual_address + marker>>)
    /\ pc' = "done"
    /\ UNCHANGED <<file, cursor0, self, call, pos, data, chunksize, fl, marker, i, io_used>>

\* data = file_handler.read(self.size)
SearchReadAll ==
    /\ pc = "search_readall"
    /\ data' = fh_read(cursor, self.size)
    /\ cursor' = cursor + Len(data')
    /\ pc' = "search_scan"
    /\ UNCHANGED <<file, cursor0, self, call, pos, chunksize, fl, marker, i, ret, io_used>>

\* the loop `while len(data) > len(pattern)` of the find_first=False branch:
\* the list built, and whether the loop left through `return fl` (marker == -1)
RECURSIVE scan(_, _, _, _, _)
scan(d, pattern, offset, acc, start_virtual_address) ==
    IF Len(d) > Len(pattern)
    THEN LET m == find(d, pattern)
         IN  IF m = -1
             THEN [fl |-> acc, returned |-> TRUE]
             ELSE scan(DropFirst(d, m + 1), pattern, offset + m + 1,
                       Append(acc, m + offset + start_virtual_address),
                       start_virtual_address)
    ELSE [fl |-> acc, returned |-> FALSE]

\* file_handler.seek(pos, 0), then the scan of the whole buffer
SearchScan ==
    /\ pc = "search_scan"
    /\ cursor' = pos
    /\ LET r == scan(data, call.pattern, 0, <<>>, self.start_virtual_address)
       IN  /\ fl' = r.fl
           /\ IF r.returned
              THEN ret' = Return(r.fl) /\ pc' = "done"
              ELSE ret' = ret /\ pc' = "search_restore"
    /\ UNCHANGED <<file, cursor0, self, call, pos, data, chunksize, marker, i, io_used>>

\* file_handler.seek(pos, 0); return fl
SearchRestore ==
    /\ pc = "search_restore"
    /\ cursor' = pos
    /\ ret' = Return(fl)
    /\ pc' = "done"
    /\ UNCHANGED <<file, cursor0, self, call, pos, data, chunksize, fl, marker, i, io_used>>

----------------------------------------------------------------------------
(* Byte buffers: int.to_bytes / int.from_bytes, little-endian, unsigned *)

\* n.to_bytes(length, byteorder="little", signed=False), for n that fits
RECURSIVE int_to_bytes(_, _)
int_to_bytes(n, length) ==
    IF length = 0 THEN <<>>
    ELSE <<n % 256>> \o int_to_bytes(n \div 256, length - 1)

\* int.from_bytes(b, byteorder="little", signed=False); 0 for no bytes
RECURSIVE int_from_bytes(_)
int_from_bytes(b) ==
    IF b = <<>> THEN 0 ELSE Head(b) + 256 * int_from_bytes(Tail(b))

\* buff.read(n) of a BytesIO at position p: the bytes, short at the end
buff_read(buff, p, n) == Slice(buff, p, n)

----------------------------------------------------------------------------
(* MINIDUMP_LOCATION_DESCRIPTOR and MINIDUMP_LOCATION_DESCRIPTOR64 *)

MINIDUMP_LOCATION_DESCRIPTOR_get_size == 8

MINIDUMP_LOCATION_DESCRIPTOR64_get_size == 16

MINIDUMP_LOCATION_DESCRIPTOR_to_bytes(v) ==
    int_to_bytes(v.DataSize, 4) \o int_to_bytes(v.Rva, 4)

MINIDUMP_LOCATION_DESCRIPTOR64_to_bytes(v) ==
    int_to_bytes(v.DataSize, 8) \o int_to_bytes(v.Rva, 8)

\* decoding two fields of `width` bytes each from position p: the descriptor
\* and the position of the buffer afterwards
parse_two_fields(buff, p, width) ==
    LET a == buff_read(buff, p, width)
        b == buff_read(buff, p + Len(a), width)
    IN  [first |-> int_from_bytes(a), second |-> int_from_bytes(b),
         pos |-> p + Len(a) + Len(b)]

\* faulty variant: the two fields are read in the other order
MINIDUMP_LOCATION_DESCRIPTOR_parse_swapped(buff, p) ==
    LET r == parse_two_fields(buff, p, 4)
    IN  [value |-> [DataSize |-> r.second, Rva |-> r.first], pos |-> r.pos]

MINIDUMP_LOCATION_DESCRIPTOR_parse(buff, p) ==
    LET r == parse_two_fields(buff, p, 4)
    IN  [value |-> [DataSize |-> r.first, Rva |-> r.second], pos |-> r.pos]

MINIDUMP_LOCATION_DESCRIPTOR64_parse(buff, p) ==
    LET r == parse_two_fields(buff, p, 8)
    IN  [value |-> [DataSize |-> r.first, Rva |-> r.second], pos |-> r.pos]

----------------------------------------------------------------------------
(* Memory64ListStream: MINIDUMP_MEMORY_DESCRIPTOR64, MINIDUMP_MEMORY64_LIST, *)
(* MinidumpMemory64List                                                      *)

MINIDUMP_MEMORY_DESCRIPTOR64_to_bytes(r) ==
    int_to_bytes(r.StartOfMemoryRange, 8) \o int_to_bytes(r.DataSize, 8)

MINIDUMP_MEMORY_DESCRIPTOR64_parse(buff, p) ==
    LET r == parse_two_fields(buff, p, 8)
    IN  [value |-> [StartOfMemoryRange |-> r.first, DataSize |-> r.second],
         pos |-> r.pos]

\* b"".join of the to_bytes of the ranges
RECURSIVE ranges64_to_bytes(_)
ranges64_to_bytes(ranges) ==
    IF ranges = <<>> THEN <<>>
    ELSE MINIDUMP_MEMORY_DESCRIPTOR64_to_bytes(Head(ranges))
           \o ranges64_to_bytes(Tail(ranges))

MINIDUMP_MEMORY64_LIST_to_bytes(mtl) ==
    int_to_bytes(Len(mtl.MemoryRanges), 8)
      \o int_to_bytes(mtl.BaseRva, 8)
      \o ranges64_to_bytes(mtl.MemoryRanges)

\* [MINIDUMP_MEMORY_DESCRIPTOR64.parse(buff) for _ in range(n)]
RECURSIVE ranges64_parse(_, _, _)
ranges64_parse(buff, p, n) ==
    IF n <= 0 THEN <<>>
    ELSE LET r == MINIDUMP_MEMORY_DESCRIPTOR64_parse(buff, p)
         IN  <<r.value>> \o ranges64_parse(buff, r.pos, n - 1)

MINIDUMP_MEMORY64_LIST_parse(buff) ==
    LET n == buff_read(buff, 0, 8)
        base == buff_read(buff, Len(n), 8)
    IN  [NumberOfMemoryRanges |-> int_from_bytes(n),
         BaseRva |-> int_from_bytes(base),
         MemoryRanges |-> ranges64_parse(buff, Len(n) + Len(base), int_from_bytes(n))]

\* MinidumpMemorySegment.parse_full
parse_full(memory_decriptor, rva) ==
    MinidumpMemorySegment(memory_decriptor.DataSize, rva,
                          memory_decriptor.StartOfMemoryRange)

\* faulty variant: the running offset is not advanced
RECURSIVE segments_from_ranges_fixed(_, _)
segments_from_ranges_fixed(ranges, rva) ==
    IF ranges = <<>> THEN <<>>
    ELSE <<parse_full(Head(ranges), rva)>>
           \o segments_from_ranges_fixed(Tail(ranges), rva)

\* the loop of from_chunk_data: append parse_full(mod, rva); rva += mod.DataSize
RECURSIVE segments_from_ranges(_, _)
segments_from_ranges(ranges, rva) ==
    IF ranges = <<>> THEN <<>>
    ELSE <<parse_full(Head(ranges), rva)>>
           \o segments_from_ranges(Tail(ranges), rva + Head(ranges).DataSize)

\* MinidumpMemory64List.from_chunk_data: the memory_segments of the result
from_chunk_data(chunk) ==
    LET mtl == MINIDUMP_MEMORY64_LIST_parse(chunk)
    IN  segments_from_ranges(mtl.MemoryRanges, mtl.BaseRva)

----------------------------------------------------------------------------
(* MemoryListStream: MINIDUMP_MEMORY_DESCRIPTOR, MINIDUMP_MEMORY_LIST,      *)
(* MinidumpMemoryList                                                       *)

\* MemoryLocation is parsed first, StartOfMemoryRange from the 8 bytes after it
MINIDUMP_MEMORY_DESCRIPTOR_parse(buff, p) ==
    LET MemoryLocation == MINIDUMP_LOCATION_DESCRIPTOR_parse(buff, p)
        start == buff_read(buff, MemoryLocation.pos, 8)
    IN  [value |-> [StartOfMemoryRange |-> int_from_bytes(start),
                    DataSize |-> MemoryLocation.value.DataSize,
                    Rva |-> MemoryLocation.value.Rva],
         pos |-> MemoryLocation.pos + Len(start)]

\* [MINIDUMP_MEMORY_DESCRIPTOR.parse(buff) for _ in range(n)]
RECURSIVE ranges_parse(_, _, _)
ranges_parse(buff, p, n) ==
    IF n <= 0 THEN <<>>
    ELSE LET r == MINIDUMP_MEMORY_DESCRIPTOR_parse(buff, p)
         IN  <<r.value>> \o ranges_parse(buff, r.pos, n - 1)

MINIDUMP_MEMORY_LIST_parse(buff) ==
    LET n == buff_read(buff, 0, 4)
    IN  [NumberOfMemoryRanges |-> int_from_bytes(n),
         MemoryRanges |-> ranges_parse(buff, Len(n), int_from_bytes(n))]

\* MinidumpMemorySegment.parse_mini
parse_mini(memory_decriptor) ==
    MinidumpMemorySegment(memory_decriptor.DataSize, memory_decriptor.Rva,
                          memory_decriptor.StartOfMemoryRange)

\* MinidumpMemoryList.parse on the chunk read from the directory's location:
\* the memory_segments of the result
MinidumpMemoryList_parse(chunk) ==
    LET mtl == MINIDUMP_MEMORY_LIST_parse(chunk)
    IN  [k \in 1..Len(mtl.MemoryRanges) |-> parse_mini(mtl.MemoryRanges[k])]

----------------------------------------------------------------------------
(* The calls a client makes on the segments of one backing source *)

Patterns == SeqsUpTo(Bytes, MaxPatLen)

NoInput == [value |-> <<>>, encoded |-> <<>>]

InitParse ==
    /\ stream_op = "none"
    /\ stream_in = NoInput
    /\ chunk_data = <<>>
    /\ buff_pos = 0
    /\ stream_ret = "none"
    /\ location = [DataSize |-> 0, Rva |-> 0]
    /\ memory_segments = <<>>

NoSegment == MinidumpMemorySegment(0, 0, 0)

InitSeg ==
    /\ cursor0 = cursor
    /\ self = NoSegment
    /\ call = NoCall
    /\ pc = "idle"
    /\ pos = 0
    /\ data = <<>>
    /\ chunksize = 0
    /\ fl = <<>>
    /\ marker = -1
    /\ i = 0
    /\ ret = NoRet
    /\ io_used = FALSE

\* the call has returned or raised: control is back in the client and the
\* frame of the call is gone; only the file handle keeps its state
Finish ==
    /\ pc = "done"
    /\ pc' = "idle"
    /\ self' = NoSegment
    /\ call' = NoCall
    /\ pos' = 0
    /\ data' = <<>>
    /\ chunksize' = 0
    /\ fl' = <<>>
    /\ marker' = -1
    /\ i' = 0
    /\ ret' = NoRet
    /\ io_used' = FALSE
    /\ UNCHANGED <<file, cursor, cursor0>>

\* the coroutines that may run at once
AsyncTasks == {1, 2}

\* the frame of an aread that has not been called
NoARead == [pc |-> "idle", self |-> NoSegment, virtual_address |-> 0, size |-> 0,
            pos |-> 0, data |-> <<>>, ret |-> NoRet]

InitAsync ==
    /\ areads = [t \in AsyncTasks |-> NoARead]
    /\ overlapped = FALSE

Init ==
    /\ file \in [1..FileLen -> Bytes]
    /\ cursor \in {0, FileLen - 1}
    /\ InitSeg
    /\ InitParse
    /\ InitAsync

DoValidate ==
    /\ pc = "idle"
    /\ \E seg \in Segments :
        \E va \in (seg.start_virtual_address - 1)..(seg.end_virtual_address + 1),
           size \in 0..MaxReadLen :
            ValidateCall(seg, va, size)

DoRead ==
    /\ pc = "idle"
    /\ \E seg \in Segments :
        \E va \in (seg.start_virtual_address - 1)..(seg.end_virtual_address + 1),
           size \in 0..MaxReadLen :
            ReadCall(seg, va, size)

DoSearch ==
    /\ pc = "idle"
    /\ \E seg \in Segments, pattern \in Patterns, find_first \in BOOLEAN,
       chunk \in 0..MaxChunk :
        SearchCall(seg, pattern, find_first, chunk)

Next ==
    \/ (DoValidate /\ UNCHANGED <<parsevars, asyncvars>>)
    \/ (DoRead /\ UNCHANGED <<parsevars, asyncvars>>)
    \/ (ReadSeek /\ UNCHANGED <<parsevars, asyncvars>>)
    \/ (ReadData /\ UNCHANGED <<parsevars, asyncvars>>)
    \/ (ReadRestore /\ UNCHANGED <<parsevars, asyncvars>>)
    \/ (DoSearch /\ UNCHANGED <<parsevars, asyncvars>>)
    \/ (SearchSeek /\ UNCHANGED <<parsevars, asyncvars>>)
    \/ (SearchChunk /\ UNCHANGED <<parsevars, asyncvars>>)
    \/ (SearchExhausted /\ UNCHANGED <<parsevars, asyncvars>>)
    \/ (SearchFound /\ UNCHANGED <<parsevars, asyncvars>>)
    \/ (SearchReadAll /\ UNCHANGED <<parsevars, asyncvars>>)
    \/ (SearchScan /\ UNCHANGED <<parsevars, asyncvars>>)
    \/ (SearchRestore /\ UNCHANGED <<parsevars, asyncvars>>)
    \/ (Finish /\ UNCHANGED <<parsevars, asyncvars>>)

Spec == Init /\ [][Next]_vars

----------------------------------------------------------------------------
(* The stream decoders applied to byte buffers *)

\* longest list of memory ranges in a stream
MaxRanges == 3

\* values of the fields of a location descriptor
FieldValues == {0, 1, 255, 256, 65535, 16777216, 2147483647}
\* the byte that follows a descriptor in a longer buffer
Trailer == <<255>>
\* full/64-form lists: start addresses, sizes and base offsets
RangeStarts == {4096, 70000}
RangeSizes == {0, 3, 300}
BaseRvas == {0, 5, 1000}
\* how many bytes a truncated list buffer lacks
Drops == {0, 1, 9, 16}
\* simple-form lists: start addresses, sizes and file offsets
SimpleStarts == {1, 4096}
SimpleSizes == {2, 300}
SimpleOffsets == {0}

\* a simple-form list stream as the format lays it out: count:u32, then per
\* entry startVirtualAddress:u64, dataSize:u32, fileOffset:u32
RECURSIVE SimpleEntries(_)
SimpleEntries(entries) ==
    IF entries = <<>> THEN <<>>
    ELSE int_to_bytes(Head(entries).va, 8)
           \o int_to_bytes(Head(entries).size, 4)
           \o int_to_bytes(Head(entries).fileOffset, 4)
           \o SimpleEntries(Tail(entries))

SimpleListStream(entries) == int_to_bytes(Len(entries), 4) \o SimpleEntries(entries)

ParseLocation(v, keep) ==
    LET enc == MINIDUMP_LOCATION_DESCRIPTOR_to_bytes(v)
        buff == Slice(enc \o Trailer, 0, keep)
        r == MINIDUMP_LOCATION_DESCRIPTOR_parse(buff, 0)
    IN  /\ stream_op' = "MINIDUMP_LOCATION_DESCRIPTOR.parse"
        /\ stream_in' = [value |-> v, encoded |-> enc]
        /\ chunk_data' = buff
        /\ location' = r.value
        /\ buff_pos' = r.pos
        /\ stream_ret' = "return"
        /\ memory_segments' = <<>>

ParseLocation64(v, keep) ==
    LET enc == MINIDUMP_LOCATION_DESCRIPTOR64_to_bytes(v)
        buff == Slice(enc \o Trailer, 0, keep)
        r == MINIDUMP_LOCATION_DESCRIPTOR64_parse(buff, 0)
    IN  /\ stream_op' = "MINIDUMP_LOCATION_DESCRIPTOR64.parse"
        /\ stream_in' = [value |-> v, encoded |-> enc]
        /\ chunk_data' = buff
        /\ location' = r.value
        /\ buff_pos' = r.pos
        /\ stream_ret' = "return"
        /\ memory_segments' = <<>>

FromChunkData(base, ranges, drop) ==
    LET mtl == [NumberOfMemoryRanges |-> Len(ranges), BaseRva |-> base,
                MemoryRanges |-> ranges]
        enc == MINIDUMP_MEMORY64_LIST_to_bytes(mtl)
        chunk == Slice(enc, 0, Len(enc) - drop)
    IN  /\ stream_op' = "MinidumpMemory64List.from_chunk_data"
        /\ stream_in' = [value |-> mtl, encoded |-> enc]
        /\ chunk_data' = chunk
        /\ memory_segments' = from_chunk_data(chunk)
        /\ stream_ret' = "return"
        /\ location' = [DataSize |-> 0, Rva |-> 0]
        /\ buff_pos' = 0

ParseMemoryList(entries) ==
    LET chunk == SimpleListStream(entries)
    IN  /\ stream_op' = "MinidumpMemoryList.parse"
        /\ stream_in' = [value |-> entries, encoded |-> chunk]
        /\ chunk_data' = chunk
        /\ memory_segments' = MinidumpMemoryList_parse(chunk)
        /\ stream_ret' = "return"
        /\ location' = [DataSize |-> 0, Rva |-> 0]
        /\ buff_pos' = 0

LocationValues == [DataSize : FieldValues, Rva : FieldValues]

Ranges64 ==
    SeqsUpTo([StartOfMemoryRange : RangeStarts, DataSize : RangeSizes], MaxRanges)

SimpleRanges ==
    SeqsUpTo([va : SimpleStarts, size : SimpleSizes, fileOffset : SimpleOffsets],
             MaxRanges)

DoParseLocation ==
    /\ stream_op = "none"
    /\ \E v \in LocationValues,
       keep \in 0..(MINIDUMP_LOCATION_DESCRIPTOR_get_size + 1) :
        ParseLocation(v, keep)

DoParseLocation64 ==
    /\ stream_op = "none"
    /\ \E v \in LocationValues,
       keep \in 0..(MINIDUMP_LOCATION_DESCRIPTOR64_get_size + 1) :
        ParseLocation64(v, keep)

DoFromChunkData ==
    /\ stream_op = "none"
    /\ \E base \in BaseRvas, ranges \in Ranges64, drop \in Drops :
        FromChunkData(base, ranges, drop)

DoParseMemoryList ==
    /\ stream_op = "none"
    /\ \E entries \in SimpleRanges : ParseMemoryList(entries)

\* the decoder has returned: its result goes to the caller
ParseFinish ==
    /\ stream_op # "none"
    /\ stream_op' = "none"
    /\ stream_in' = NoInput
    /\ chunk_data' = <<>>
    /\ buff_pos' = 0
    /\ stream_ret' = "none"
    /\ location' = [DataSize |-> 0, Rva |-> 0]
    /\ memory_segments' = <<>>

ParseInit ==
    /\ file = [k \in 1..FileLen |-> "A"]
    /\ cursor = 0
    /\ InitSeg
    /\ InitParse
    /\ InitAsync

ParseNext ==
    \/ (DoParseLocation /\ UNCHANGED <<segvars, asyncvars>>)
    \/ (DoParseLocation64 /\ UNCHANGED <<segvars, asyncvars>>)
    \/ (DoFromChunkData /\ UNCHANGED <<segvars, asyncvars>>)
    \/ (DoParseMemoryList /\ UNCHANGED <<segvars, asyncvars>>)
    \/ (ParseFinish /\ UNCHANGED <<segvars, asyncvars>>)

ParseSpec == ParseInit /\ [][ParseNext]_vars

----------------------------------------------------------------------------
(* MinidumpMemorySegment.aread in two coroutines on one file handle: a     *)
(* coroutine runs from one await to the next, and another may run between  *)

\* validate_address, then pos = file_handler.tell(), up to the first await
AReadCall(t, seg, virtual_address, size) ==
    /\ areads[t].pc = "idle"
    /\ LET err == validate_address(seg, virtual_address, size)
           frame == [NoARead EXCEPT !.self = seg,
                                    !.virtual_address = virtual_address,
                                    !.size = size]
       IN  areads' = [areads EXCEPT ![t] =
               IF err # ""
               THEN [frame EXCEPT !.pc = "done", !.ret = Raise(err)]
               ELSE [frame EXCEPT !.pc = "aread_seek", !.pos = cursor]]
    /\ overlapped' = (overlapped
                        \/ \E u \in AsyncTasks \ {t} :
                             areads[u].pc \notin {"idle", "done"})
    /\ UNCHANGED <<file, cursor, cursor0>>

\* await file_handler.seek(self.start_file_address + offset, 0)
AReadSeek(t) ==
    /\ areads[t].pc = "aread_seek"
    /\ cursor' = read_offset(areads[t].self, areads[t].virtual_address)
    /\ areads' = [areads EXCEPT ![t].pc = "aread_read"]
    /\ UNCHANGED <<file, cursor0, overlapped>>

\* data = await file_handler.read(size)
AReadData(t) ==
    /\ areads[t].pc = "aread_read"
    /\ LET got == fh_read(cursor, areads[t].size)
       IN  /\ areads' = [areads EXCEPT ![t].data = got, ![t].pc = "aread_restore"]
           /\ cursor' = cursor + Len(got)
    /\ UNCHANGED <<file, cursor0, overlapped>>

\* faulty variant: returns without seeking back
AReadRestore_noseek(t) ==
    /\ areads[t].pc = "aread_restore"
    /\ areads' = [areads EXCEPT ![t].ret = Return(areads[t].data), ![t].pc = "done"]
    /\ UNCHANGED <<file, cursor, cursor0, overlapped>>

\* await file_handler.seek(pos, 0); return data
AReadRestore(t) ==
    /\ areads[t].pc = "aread_restore"
    /\ cursor' = areads[t].pos
    /\ areads' = [areads EXCEPT ![t].ret = Return(areads[t].data), ![t].pc = "done"]
    /\ UNCHANGED <<file, cursor0, overlapped>>

\* the segments the coroutines read: the largest, at every file address
AsyncSegments == {seg \in Segments : seg.size = MaxSize}

\* backing sources in which neighbouring bytes differ
AsyncFiles == {f \in [1..FileLen -> Bytes] : \A k \in 1..(FileLen - 1) : f[k] # f[k + 1]}

DoARead(t) ==
    /\ areads[t].pc = "idle"
    /\ \E seg \in AsyncSegments :
        \E va \in (seg.start_virtual_address - 1)..(seg.end_virtual_address + 1),
           size \in 0..MaxReadLen :
            AReadCall(t, seg, va, size)

asyncfixed == <<self, call, pc, pos, data, chunksize, fl, marker, i, ret, io_used>>

AsyncInit ==
    /\ file \in AsyncFiles
    /\ cursor \in {0, FileLen - 1}
    /\ InitSeg
    /\ InitParse
    /\ InitAsync

AsyncNext ==
    \/ ((\E t \in AsyncTasks : DoARead(t)) /\ UNCHANGED <<asyncfixed, parsevars>>)
    \/ ((\E t \in AsyncTasks : AReadSeek(t)) /\ UNCHANGED <<asyncfixed, parsevars>>)
    \/ ((\E t \in AsyncTasks : AReadData(t)) /\ UNCHANGED <<asyncfixed, parsevars>>)
    \/ ((\E t \in AsyncTasks : AReadRestore(t)) /\ UNCHANGED <<asyncfixed, parsevars>>)

AsyncSpec == AsyncInit /\ [][AsyncNext]_vars

----------------------------------------------------------------------------
(* Properties of the segment operations, checked under Spec *)

\* the bytes of the backing source that lie in the segment's file region
SegBytes(seg) == Slice(file, seg.start_file_address, seg.size)

\* whether the backing source holds all `size` bytes of the segment
SourceHolds(seg) == seg.start_file_address + seg.size <= Len(file)

\* the offsets at which pattern occurs in d
Occurrences(d, pattern) ==
    {o \in 0..(Len(d) - Len(pattern)) : Slice(d, o, Len(pattern)) = pattern}

\* the elements of a finite set of integers, ascending
RECURSIVE Ascending(_)
Ascending(S) ==
    IF S = {} THEN <<>> ELSE <<SetMin(S)>> \o Ascending(S \ {SetMin(S)})

Returned(name) == pc = "done" /\ call.name = name

\* what the specification states of validate_address(va, len)
InBounds(seg, va, len) ==
    /\ seg.start_virtual_address <= va
    /\ va <= seg.end_virtual_address
    /\ va + len <= seg.end_virtual_address

\* C3: validate_address(va, len) succeeds if and only if
\* start <= va <= end and va + len <= end; otherwise it raises.
C3_ValidateIff ==
    Returned("validate_address") =>
        /\ ret.status \in {"return", "raise"}
        /\ ret.status = "return"
             <=> InBounds(self, call.virtual_address, call.size)
        /\ call.virtual_address < self.start_virtual_address => ret.status = "raise"
        /\ call.virtual_address > self.end_virtual_address => ret.status = "raise"
        /\ call.virtual_address + call.size > self.end_virtual_address
             => ret.status = "raise"

\* C3 witness: va == end with len == 0 is accepted on a non-empty segment
C3_Witness ==
    /\ Returned("validate_address")
    /\ self.size > 0
    /\ call.virtual_address = self.end_virtual_address
    /\ call.size = 0
    /\ ret.status = "return"

\* C4: a read that validate_address accepts returns exactly the len bytes at
\* file offset start_file_address + (va - start_virtual_address), and fails
\* with an error when the source holds fewer than len bytes from there.
C4_ReadExactOrError ==
    (Returned("read") /\ InBounds(self, call.virtual_address, call.size)) =>
        LET off == self.start_file_address
                     + (call.virtual_address - self.start_virtual_address)
        IN  IF Len(Slice(file, off, call.size)) = call.size
            THEN ret = Return(Slice(file, off, call.size))
            ELSE ret.status = "raise"

\* C5: when no call is in progress the cursor of the backing source is where
\* it was before the first call: every read and every search restores it,
\* whichever way it exits.
C5_CursorRestored ==
    pc \in {"idle", "done"} => cursor = cursor0

\* C5 witness: a find_first search returned early on a match after moving
\* the cursor away from where it started
C5_Witness ==
    /\ Returned("search")
    /\ call.find_first
    /\ ret.value # <<>>
    /\ data # <<>>
    /\ io_used
    /\ self.start_file_address + Len(data) # cursor0
    /\ cursor = cursor0

\* C6: search with find_first=false returns, ascending, the address of every
\* offset 0 <= o <= size - len(pattern) at which the pattern occurs.
C6_AllOccurrences ==
    (/\ Returned("search")
     /\ ~call.find_first
     /\ Len(call.pattern) >= 1
     /\ SourceHolds(self)) =>
        ret = Return([k \in 1..Cardinality(Occurrences(SegBytes(self), call.pattern)) |->
                        self.start_virtual_address
                          + Ascending(Occurrences(SegBytes(self), call.pattern))[k]])

\* the result C7 states for a find_first search
FirstOccurrence(seg, pattern) ==
    LET occ == Occurrences(SegBytes(seg), pattern)
    IN  IF occ = {} THEN <<>> ELSE <<seg.start_virtual_address + SetMin(occ)>>

\* C7 as stated: for every chunkSize >= 1 a find_first search returns the
\* address of the lowest occurrence, and the empty list when there is none.
C7_FirstOccurrence_Original ==
    (Returned("search") /\ call.find_first /\ call.chunksize >= 1) =>
        ret = Return(FirstOccurrence(self, call.pattern))

\* C7 amended: the same, for a non-empty segment or a non-empty pattern; the
\* empty pattern on an empty segment gives the empty list.
C7_FirstOccurrence ==
    (Returned("search") /\ call.find_first /\ call.chunksize >= 1) =>
        IF self.size = 0 /\ call.pattern = <<>>
        THEN ret = Return(<<>>)
        ELSE ret = Return(FirstOccurrence(self, call.pattern))

\* C7 witness: the first occurrence straddles the boundary between the first
\* and the second chunk
C7_Witness ==
    /\ Returned("search")
    /\ call.find_first
    /\ call.chunksize = 2
    /\ Len(call.pattern) = 2
    /\ ret = Return(<<self.start_virtual_address + 1>>)

\* C10: a search with a pattern longer than the segment returns no matches,
\* raises nothing and issues no seek or read, for either value of find_first.
C10_PatternTooLarge ==
    (call.name = "search" /\ Len(call.pattern) > self.size) =>
        /\ pc = "done"
        /\ ret = Return(<<>>)
        /\ ~io_used
        /\ cursor = cursor0

\* C10 witness: a non-empty pattern against an empty segment, find_first set
C10_Witness ==
    /\ Returned("search")
    /\ self.size = 0
    /\ Len(call.pattern) >= 1
    /\ call.find_first
    /\ ret = Return(<<>>)

----------------------------------------------------------------------------
(* Properties of the stream decoders, checked under ParseSpec *)

\* s_0 + ... + s_{i-1} over the DataSize of the first i ranges
RECURSIVE SizesBefore(_, _)
SizesBefore(ranges, k) ==
    IF k = 0 THEN 0 ELSE SizesBefore(ranges, k - 1) + ranges[k].DataSize

Untruncated == chunk_data = stream_in.encoded

\* C1: from a full/64-form list with base B and entries (va_i, s_i),
\* from_chunk_data builds exactly n segments in stream order, segment i with
\* start_virtual_address va_i, size s_i and start_file_address
\* B + s_0 + ... + s_{i-1}.
C1_RunningOffsets ==
    (stream_op = "MinidumpMemory64List.from_chunk_data" /\ Untruncated) =>
        LET mtl == stream_in.value
        IN  /\ Len(memory_segments) = Len(mtl.MemoryRanges)
            /\ \A k \in 1..Len(mtl.MemoryRanges) :
                 /\ memory_segments[k].start_virtual_address
                      = mtl.MemoryRanges[k].StartOfMemoryRange
                 /\ memory_segments[k].size = mtl.MemoryRanges[k].DataSize
                 /\ memory_segments[k].start_file_address
                      = mtl.BaseRva + SizesBefore(mtl.MemoryRanges, k - 1)

\* C1 witness: three entries, the first two of different non-zero sizes and a
\* non-zero base
C1_Witness ==
    /\ stream_op = "MinidumpMemory64List.from_chunk_data"
    /\ Untruncated
    /\ Len(memory_segments) = 3
    /\ stream_in.value.BaseRva = 5
    /\ memory_segments[1].size = 3
    /\ memory_segments[2].size = 300
    /\ memory_segments[3].start_file_address = 308

\* C2: from a simple-form stream count:u32 followed by entries
\* (startVirtualAddress:u64, dataSize:u32, fileOffset:u32), MinidumpMemoryList.parse
\* builds exactly count segments in stream order with the fields of the
\* corresponding entry.
C2_SimpleFields ==
    stream_op = "MinidumpMemoryList.parse" =>
        /\ Len(memory_segments) = Len(stream_in.value)
        /\ \A k \in 1..Len(stream_in.value) :
             /\ memory_segments[k].start_virtual_address = stream_in.value[k].va
             /\ memory_segments[k].size = stream_in.value[k].size
             /\ memory_segments[k].start_file_address = stream_in.value[k].fileOffset

LocationOps ==
    {"MINIDUMP_LOCATION_DESCRIPTOR.parse", "MINIDUMP_LOCATION_DESCRIPTOR64.parse"}

LocationWidth ==
    IF stream_op = "MINIDUMP_LOCATION_DESCRIPTOR.parse"
    THEN MINIDUMP_LOCATION_DESCRIPTOR_get_size
    ELSE MINIDUMP_LOCATION_DESCRIPTOR64_get_size

\* C8: to_bytes of a location descriptor yields exactly 8 (16) bytes, and
\* parse of a buffer that starts with those bytes consumes exactly that many
\* and returns the descriptor.
C8_RoundTrip ==
    stream_op \in LocationOps =>
        /\ Len(stream_in.encoded) = LocationWidth
        /\ Len(chunk_data) >= LocationWidth =>
             /\ location = stream_in.value
             /\ buff_pos = LocationWidth
             /\ stream_ret = "return"

\* C8 witness: a 16-byte descriptor with two different multi-byte fields,
\* decoded from a buffer that goes on after it
C8_Witness ==
    /\ stream_op = "MINIDUMP_LOCATION_DESCRIPTOR64.parse"
    /\ Len(chunk_data) = 17
    /\ stream_in.value = [DataSize |-> 65535, Rva |-> 2147483647]
    /\ location = stream_in.value
    /\ buff_pos = 16

\* C9: decoding a location descriptor, or a list, from a buffer that holds
\* fewer bytes than the fixed-width fields require fails with an error.
C9_TruncatedFails ==
    /\ (stream_op \in LocationOps /\ Len(chunk_data) < LocationWidth)
         => stream_ret = "raise"
    /\ (stream_op = "MinidumpMemory64List.from_chunk_data"
          /\ Len(chunk_data) < Len(stream_in.encoded))
         => stream_ret = "raise"

----------------------------------------------------------------------------
(* Properties of concurrent areads, checked under AsyncSpec *)

\* the bytes an aread is meant to return: those at
\* start_file_address + (va - start_virtual_address)
OwnBytes(r) ==
    Slice(file,
          r.self.start_file_address + (r.virtual_address - r.self.start_virtual_address),
          r.size)

BothReturned == \A t \in AsyncTasks : areads[t].pc = "done" /\ areads[t].ret.status = "return"

\* C11: two areads on one backing source can corrupt each other only by
\* interleaving: as long as no aread started while another was running,
\* every aread returns its own bytes and the cursor is restored between
\* calls.  That interleaved areads do reach a corrupted state is C11_Witness.
C11_OnlyInterleavingCorrupts ==
    ~overlapped =>
        /\ \A t \in AsyncTasks :
             (areads[t].pc = "done" /\ areads[t].ret.status = "return")
                => areads[t].ret.value = OwnBytes(areads[t])
        /\ (\A t \in AsyncTasks : areads[t].pc \in {"idle", "done"}) => cursor = cursor0

\* C11 witness: two interleaved areads have both returned, one of them with
\* bytes from a file offset that is not its own, and the cursor is not where
\* it was before either started
C11_Witness ==
    /\ BothReturned
    /\ overlapped
    /\ \E t \in AsyncTasks : areads[t].ret.value # OwnBytes(areads[t])
    /\ cursor # cursor0

----------------------------------------------------------------------------
(* Termination of search(find_first=True), checked under FairSpec *)

\* the client makes find_first searches only
DoSearchFirst ==
    /\ pc = "idle"
    /\ \E seg \in Segments, pattern \in Patterns, chunk \in 0..MaxChunk :
        SearchCall(seg, pattern, TRUE, chunk)

FairInit ==
    /\ file \in [1..FileLen -> Bytes]
    /\ cursor = 0
    /\ InitSeg
    /\ InitParse
    /\ InitAsync

FairNext ==
    \/ (DoSearchFirst /\ UNCHANGED <<parsevars, asyncvars>>)
    \/ (SearchSeek /\ UNCHANGED <<parsevars, asyncvars>>)
    \/ (SearchChunk /\ UNCHANGED <<parsevars, asyncvars>>)
    \/ (SearchExhausted /\ UNCHANGED <<parsevars, asyncvars>>)
    \/ (SearchFound /\ UNCHANGED <<parsevars, asyncvars>>)
    \/ (SearchRestore /\ UNCHANGED <<parsevars, asyncvars>>)
    \/ (Finish /\ UNCHANGED <<parsevars, asyncvars>>)

\* a step inside a search that has been entered: the interpreter keeps
\* executing it, whatever the client does between calls
CallStep ==
    /\ SearchSeek \/ SearchChunk \/ SearchExhausted \/ SearchFound \/ SearchRestore
    /\ UNCHANGED <<parsevars, asyncvars>>

FairSpec == FairInit /\ [][FairNext]_vars /\ WF_vars(CallStep)

\* a find_first search has been entered and is about to start its chunk loop
FindFirstEntered == pc = "search_seek" /\ call.name = "search" /\ call.find_first

\* C12: every find_first search that has been entered returns: a
\* single-element result, or the empty result once the loop is exhausted
C12_FindFirstTerminates ==
    FindFirstEntered ~>
        (pc = "done" /\ ret.status = "return" /\ Len(ret.value) <= 1)

====
